---- MODULE Spec2Model ----
(***************************************************************************)
(* The drag-reorder engine of react-native-draggable-gridview              *)
(* (src/src/index.tsx, src/src/util.ts) as a state machine.                *)
(*                                                                         *)
(* Conventions.  Keys are 1..MaxKeys, NoKey (0) is the null selectedKey.   *)
(* An optional value is Null (<<>>) or Some(v) (<<v>>).  A point is        *)
(* <<x, y>>.  Indices are 0-based as in the source; TLA+ sequences are     *)
(* 1-based, so position i of the source is element i+1 of a sequence.      *)
(* The useState copy of selectedKey and state.selectedKey are always       *)
(* assigned together (setSelectedKey((state.selectedKey = k))), so one     *)
(* variable stands for both and the copy at index.tsx:151 is the identity. *)
(*                                                                         *)
(* Animated.timing / Animated.parallel are the host's primitive: a started *)
(* animation stays in flight until the host completes it; at completion    *)
(* every member value holds its toValue and the start callback runs.  A    *)
(* value runs one tween at a time: starting a tween on it, or setValue on  *)
(* it, ends the tween an earlier animation had on it.                      *)
(***************************************************************************)
EXTENDS Integers, Sequences, FiniteSets, TLC

\* ------------------------------------------------------------------ bounds
MaxKeys == 3
MaxStep == 1
MaxOffset == 15
MaxOpen == 2
MaxAnims == 2
MaxRenders == 1
MaxPresses == 2
MaxColumns == 4
MaxItems == 8

\* ------------------------------------------------------- host configuration
ItemWidth == 20
ItemHeight == 20
LayoutHeight == 30
ScrollSpeed == 10

Keys == 1..MaxKeys
NoKey == 0
Null == <<>>
Some(v) == <<v>>
Get(o) == o[1]

Columns == {1, 2}
InitColumns == 2
InitData == [i \in 1..MaxKeys |-> i]

Max(a, b) == IF a >= b THEN a ELSE b
Min(a, b) == IF a <= b THEN a ELSE b
Abs(a) == IF a >= 0 THEN a ELSE 0 - a
Range(s) == {s[i] : i \in DOMAIN s}
NoDup(s) == \A i, j \in DOMAIN s : s[i] = s[j] => i = j

\* Pointer samples of onPanResponderMove: dx and dy in cells, and moveY
\* (already relative to layout.y) in the middle of the viewport, in the slow and
\* in the fast part of its bottom edge zone.
DeltaXs == {i * ItemWidth : i \in (0 - MaxStep)..MaxStep}
DeltaYs == {i * ItemHeight : i \in (0 - MaxStep)..MaxStep}
MidY == LayoutHeight \div 2
MoveYs == {MidY, LayoutHeight - (ItemHeight \div 4), LayoutHeight}

VARIABLES
    data,               \* props.data as its sequence of keys (keyExtractor applied)
    numColumns,         \* state.numColumns
    itemStateMap,       \* state.itemStateMap: key -> [index, pos, posAnimated]
    keys,               \* state.keys
    animations,         \* state.animations: sequence of [kind, toValue]
    selectedKey,        \* state.selectedKey
    startPoint,         \* state.startPoint
    startPointOffset,   \* state.startPointOffset
    moveY,              \* state.moveY
    layout,             \* state.layout (its height)
    contentOffset,      \* state.contentOffset?.y || 0
    animationId,        \* state.animationId names a frame that is still to run
    scrollY,            \* the ScrollView's real offset
    responder,          \* the pan responder holds the gesture
    onDragStartCall,    \* onDragStart(key, index) made by the last step
    onSortCall,         \* onSort(keys) made by the last step
    scrollToCall,       \* scrollTo({y}) made by the last step
    pressed,            \* the last step handled a long-press
    hit,                \* the reorder test of the last step: its newIndex, -1 if skipped
    recon,              \* what the last step's render reconciled
    open,               \* onDragStart calls not yet followed by an onSort
    renders,            \* renders with new props so far
    presses,            \* accepted long-presses so far
    zoneScroll,         \* last scrollTo y of this stay in the bottom zone
    probe,              \* the cell a cell-hit test was probed with (geometry runs)
    awaitingSort        \* a release ended a drag and no onSort was reported since

vars == <<data, numColumns, itemStateMap, keys, animations, selectedKey,
          startPoint, startPointOffset, moveY, layout, contentOffset,
          animationId, scrollY, responder, onDragStartCall, onSortCall,
          scrollToCall, pressed, hit, recon, open, renders, presses, zoneScroll,
          probe, awaitingSort>>

\* ---------------------------------------------------------------- util.ts
\* Faulty variant of getItemPosition for C11: column and row exchanged.
getItemPositionTransposed(i, nc) ==
    <<(i \div nc) * ItemWidth, (i % nc) * ItemHeight>>

getItemPosition(i, nc) ==
    <<(i % nc) * ItemWidth, (i \div nc) * ItemHeight>>

\* state.numRows = Math.ceil(data.length / numColumns), set on every render
NumRows(d, nc) == (Len(d) + nc - 1) \div nc
numRows == NumRows(data, numColumns)

IndexOf(s, k) == CHOOSE i \in DOMAIN s : s[i] = k /\ \A j \in DOMAIN s : s[j] = k => j <= i


\* ------------------------------------------------- the animation primitive
Restrict(f, S) == [k \in S |-> f[k]]

\* Values in ks get a new tween, a setValue, or are discarded: the tweens that
\* animations in flight had on them end.
Supersede(anims, ks) ==
    [i \in DOMAIN anims |->
        [anims[i] EXCEPT !.toValue = Restrict(@, (DOMAIN @) \ ks)]]

\* Animated.parallel(anims) pushed and started.  A group of no tweens completes
\* inside start(): it is pushed and filtered out in the same call.
StartGroup(anims, kind, toValue) ==
    IF DOMAIN toValue = {} THEN anims
    ELSE Append(Supersede(anims, DOMAIN toValue), [kind |-> kind, toValue |-> toValue])

\* A single Animated.timing pushed and started (it never completes in start()).
StartTiming(anims, kind, k, to) ==
    Append(Supersede(anims, {k}), [kind |-> kind, toValue |-> (k :> to)])

RemoveAt(s, i) == [j \in 1..(Len(s) - 1) |-> IF j < i THEN s[j] ELSE s[j + 1]]
InsertAt(s, i, e) ==
    [j \in 1..(Len(s) + 1) |-> IF j < i THEN s[j] ELSE IF j = i THEN e ELSE s[j - 1]]

\* ------------------------------------------------------ Item State Store
\* The useMemo body for input d under column count nc.
\* Faulty variant of ReconcileChanged for C9: compares the stored 0-based index
\* with the 1-based position, so an unchanged input looks changed.
ReconcileChangedOffByOne(prevMap, d, i) ==
    ~(d[i] \in DOMAIN prevMap /\ prevMap[d[i]].index = i)

ReconcileChanged(prevMap, d, i) ==
    ~(d[i] \in DOMAIN prevMap /\ prevMap[d[i]].index = i - 1)

\* Faulty variant of ReconcileItem for C19: a replaced item state gets a new
\* handle seeded at its position instead of the handle the key had.
ReconcileItemNewHandle(prevMap, d, nc, i) ==
    IF ~ReconcileChanged(prevMap, d, i) THEN prevMap[d[i]]
    ELSE [index |-> i - 1,
          pos |-> getItemPosition(i - 1, nc),
          posAnimated |-> getItemPosition(i - 1, nc)]

ReconcileItem(prevMap, d, nc, i) ==
    IF ~ReconcileChanged(prevMap, d, i) THEN prevMap[d[i]]
    ELSE [index |-> i - 1,
          pos |-> getItemPosition(i - 1, nc),
          posAnimated |-> IF d[i] \in DOMAIN prevMap
                          THEN prevMap[d[i]].posAnimated
                          ELSE getItemPosition(i - 1, nc)]

Reconcile(prevMap, d, nc) ==
    LET newObjs == {d[i] : i \in {j \in DOMAIN d : ReconcileChanged(prevMap, d, j)}}
        changed == newObjs # {} \/ Cardinality(DOMAIN prevMap) # Len(d)
        map == [k \in Range(d) |-> ReconcileItem(prevMap, d, nc, IndexOf(d, k))]
    IN  [changed |-> changed,
         map |-> IF changed THEN map ELSE prevMap,
         newObjs |-> IF changed THEN newObjs ELSE {},
         fresh |-> IF changed THEN Range(d) \ DOMAIN prevMap ELSE {}]

\* The useValueChangeEffect callback: one parallel group over the items whose
\* state object is not the one of the previous map.
ReconcileAnimation(anims, map, newObjs) ==
    StartGroup(anims, "reconcile", [k \in newObjs |-> map[k].pos])

\* ------------------------------------------------------------ reorder test
\* Faulty variant of Col for C8: the column is not clamped to numColumns.
ColNoUpperClamp(x, nc) == Max(0, (x + ItemWidth \div 2) \div ItemWidth)

Col(x, nc) == Max(0, Min(nc, (x + ItemWidth \div 2) \div ItemWidth))
Row(y, nr) == Max(0, Min(nr, (y + ItemHeight \div 2) \div ItemHeight))
NewIndex(x, y, nc, nr, len) == Min(len - 1, Row(y, nr) * nc + Col(x, nc))

\* Faulty variant of MoveKey for C1: removes the key at the new slot instead of
\* the selected key's old slot.
MoveKeyWrongSlot(ks, prevIndex, newIndex, selKey) ==
    InsertAt(RemoveAt(ks, newIndex + 1), newIndex + 1, selKey)

\* Faulty variant of MoveKey for C7: exchanges the two slots instead of moving
\* one key.
MoveKeySwap(ks, prevIndex, newIndex, selKey) ==
    [ks EXCEPT ![prevIndex + 1] = ks[newIndex + 1], ![newIndex + 1] = selKey]

MoveKey(ks, prevIndex, newIndex, selKey) ==
    InsertAt(RemoveAt(ks, prevIndex + 1), newIndex + 1, selKey)

\* Faulty variant of ReorderGuard for C3: reorders while animations are in flight.
ReorderGuardNoAnimationTest(anims, selKey) == selKey # NoKey

ReorderGuard(anims, selKey) == anims = <<>> /\ selKey # NoKey

\* reorder(x, y) on store (ism, ks, anims): the store it leaves and what it did.
reorder(ism, ks, anims, selKey, nc, nr, x, y) ==
    LET skip == [itemStateMap |-> ism, keys |-> ks, animations |-> anims,
                 hit |-> Some(0 - 1)]
    IN
    IF ~ReorderGuard(anims, selKey) THEN skip
    ELSE IF selKey \notin DOMAIN ism THEN skip
    ELSE
      LET newIndex == NewIndex(x, y, nc, nr, Len(ks))
          prevIndex == ism[selKey].index
          test == newIndex
      IN
      IF newIndex = prevIndex THEN [skip EXCEPT !.hit = Some(test)]
      ELSE
        LET newKeys == MoveKey(ks, prevIndex, newIndex, selKey)
            newMap == [k \in DOMAIN ism |->
                         IF k \in Range(newKeys)
                         THEN [ism[k] EXCEPT
                                 !.index = IndexOf(newKeys, k) - 1,
                                 !.pos = getItemPosition(IndexOf(newKeys, k) - 1, nc)]
                         ELSE ism[k]]
            moved == {newKeys[i] : i \in (DOMAIN newKeys) \ {newIndex + 1}} \cap DOMAIN ism
        IN [itemStateMap |-> newMap,
            keys |-> newKeys,
            animations |-> StartGroup(anims, "reorder", [k \in moved |-> newMap[k].pos]),
            hit |-> Some(test)]


\* ------------------------------------------------------------------- host
\* The inputs the host renders with, besides the order the store holds (what
\* onSort reported): the first order, the first order without its last key, and
\* the first order with a new key in place of its last key.
\* They are duplicate-free (duplicate keys are outside the contract).
NewKey == MaxKeys + 1
DataInputs ==
    {InitData, SubSeq(InitData, 1, MaxKeys - 1),
     Append(SubSeq(InitData, 1, MaxKeys - 1), NewKey)}

NoCalls ==
    /\ onDragStartCall' = Null
    /\ pressed' = FALSE
    /\ onSortCall' = Null
    /\ scrollToCall' = Null

Init ==
    /\ data = InitData
    /\ numColumns = InitColumns
    /\ LET r == Reconcile(<<>>, InitData, InitColumns)
       IN /\ itemStateMap = r.map
          /\ keys = InitData
          /\ animations = ReconcileAnimation(<<>>, r.map, r.newObjs)
          /\ recon = Some([input |-> InitData, changed |-> r.changed,
                           newObjs |-> r.newObjs, fresh |-> r.fresh])
    /\ selectedKey = NoKey
    /\ startPoint = Null
    /\ startPointOffset = 0
    /\ moveY = Null
    /\ layout = Null
    /\ contentOffset = 0
    /\ animationId = FALSE
    /\ scrollY = 0
    /\ responder = FALSE
    /\ onDragStartCall = Null
    /\ pressed = FALSE
    /\ onSortCall = Null
    /\ scrollToCall = Null
    /\ hit = Null
    /\ open = 0
    /\ renders = 0
    /\ presses = 0
    /\ zoneScroll = Null
    /\ probe = Null
    /\ awaitingSort = FALSE

\* A render of GridViewToMemo with props (data d, numColumns nc).  newArray says
\* whether d is another array than the one of the previous render (useMemo's
\* dependency is the array's identity).
Render(d, nc, newArray) ==
    /\ newArray \/ (d = data /\ nc # numColumns)
    /\ Len(animations) < MaxAnims
    /\ renders < MaxRenders
    /\ renders' = renders + 1
    /\ data' = d
    /\ numColumns' = nc
    /\ IF newArray
       THEN LET r == Reconcile(itemStateMap, d, nc)
            IN /\ itemStateMap' = r.map
               /\ keys' = IF r.changed THEN d ELSE keys
               /\ animations' =
                    IF r.changed
                    THEN ReconcileAnimation(
                           Supersede(animations, (DOMAIN itemStateMap) \ Range(d)),
                           r.map, r.newObjs)
                    ELSE animations
               /\ recon' = Some([input |-> d, changed |-> r.changed,
                                 newObjs |-> r.newObjs, fresh |-> r.fresh])
       ELSE /\ UNCHANGED <<itemStateMap, keys, animations>>
            /\ recon' = Null
    /\ hit' = Null
    /\ NoCalls
    /\ UNCHANGED <<probe, awaitingSort, selectedKey, startPoint, startPointOffset, moveY, layout,
                   contentOffset, animationId, scrollY, responder, open, presses,
                   zoneScroll>>

handleLayout ==
    /\ layout' = Some(LayoutHeight)
    /\ hit' = Null
    /\ recon' = Null
    /\ NoCalls
    /\ UNCHANGED <<probe, awaitingSort, data, numColumns, itemStateMap, keys, animations, selectedKey,
                   startPoint, startPointOffset, moveY, contentOffset, animationId,
                   scrollY, responder, open, renders, presses, zoneScroll>>

\* onScroll: the ScrollView reports its offset.
handleScroll ==
    /\ contentOffset' = scrollY
    /\ hit' = Null
    /\ recon' = Null
    /\ NoCalls
    /\ UNCHANGED <<probe, awaitingSort, data, numColumns, itemStateMap, keys, animations, selectedKey,
                   startPoint, startPointOffset, moveY, layout, animationId,
                   scrollY, responder, open, renders, presses, zoneScroll>>

\* Faulty variant of LongPressGuard for C4: long-press accepted while animating.
LongPressGuardOpen == TRUE

LongPressGuard == animations = <<>>

\* onLongPress of the rendered cell of key: the index is the one of the render.
handleLongPress(key) ==
    /\ ~responder
    /\ key \in Range(data) \cap DOMAIN itemStateMap
    /\ hit' = Null
    /\ recon' = Null
    /\ onSortCall' = Null
    /\ scrollToCall' = Null
    /\ pressed' = TRUE
    /\ IF ~LongPressGuard
       THEN /\ onDragStartCall' = Null
            /\ UNCHANGED <<selectedKey, startPoint, startPointOffset, open, presses,
                           zoneScroll>>
       ELSE LET index == IndexOf(data, key) - 1
            IN /\ startPoint' = Some(getItemPosition(index, numColumns))
               /\ startPointOffset' = 0
               /\ selectedKey' = key
               /\ onDragStartCall' = Some(<<key, index>>)
               /\ open' = Min(open + 1, MaxOpen)
               /\ presses < MaxPresses
               /\ presses' = presses + 1
               /\ zoneScroll' = Null
    /\ UNCHANGED <<probe, awaitingSort, data, numColumns, itemStateMap, keys, animations, moveY, layout,
                   contentOffset, animationId, scrollY, responder, renders>>


\* --------------------------------------------------------- Auto-Scroll Loop
InBottomZone(my, h) == my > h - ItemHeight \div 2
InTopZone(my) == my < ItemHeight \div 2

\* a of animate(): how far the pointer is inside an edge zone.
EdgeDepth(my, h) ==
    IF InTopZone(my) THEN Max(0 - ItemHeight \div 2, my - ItemHeight \div 2)
    ELSE IF InBottomZone(my, h)
         THEN Min(ItemHeight \div 2, my - (h - ItemHeight \div 2))
         ELSE 0

\* offY of animate(): the clamped scroll target.
ScrollTarget(contentOffsetY, offset, maxY) ==
    Max(0, Min(maxY, contentOffsetY + offset))

AnimateReturnsEarly ==
    \/ selectedKey = NoKey
    \/ moveY = Null
    \/ layout = Null
    \/ selectedKey \notin DOMAIN itemStateMap

\* animate().  idOnReturn says whether a frame is still to run after an early
\* return: as before when called from handleMoveShouldSetPanResponder, none when
\* called as the frame that state.animationId named.
animate(idOnReturn) ==
    IF AnimateReturnsEarly
    THEN /\ animationId' = idOnReturn
         /\ hit' = Null
         /\ scrollToCall' = Null
         /\ UNCHANGED <<itemStateMap, keys, animations, startPointOffset, scrollY,
                        zoneScroll>>
    ELSE
      LET a == EdgeDepth(Get(moveY), Get(layout))
          offset == (a * ScrollSpeed) \div (ItemHeight \div 2)
          contentOffsetY == contentOffset
          maxY == ItemHeight * numRows - Get(layout)
          offY == ScrollTarget(contentOffsetY, offset, maxY)
          diff == offY - contentOffsetY
          x == itemStateMap[selectedKey].posAnimated[1]
          y == itemStateMap[selectedKey].posAnimated[2] + diff
          r == reorder([itemStateMap EXCEPT ![selectedKey].posAnimated = <<x, y>>],
                       keys, Supersede(animations, {selectedKey}), selectedKey,
                       numColumns, numRows, x, y)
      IN
      /\ animationId' = TRUE
      /\ IF a # 0 /\ 5 * Abs(diff) > 1
         THEN /\ Abs(startPointOffset + diff) <= MaxOffset
              /\ startPointOffset' = startPointOffset + diff
              /\ itemStateMap' = r.itemStateMap
              /\ keys' = r.keys
              /\ animations' = r.animations
              /\ hit' = r.hit
              /\ scrollToCall' = Some(offY)
              /\ scrollY' = offY
              /\ zoneScroll' = IF a > 0 THEN Some(offY) ELSE Null
         ELSE /\ hit' = Null
              /\ scrollToCall' = Null
              /\ UNCHANGED <<itemStateMap, keys, animations, startPointOffset,
                             scrollY, zoneScroll>>

\* The frame requested by animate() runs.
Tick ==
    /\ animationId
    /\ animate(FALSE)
    /\ recon' = Null
    /\ onDragStartCall' = Null
    /\ pressed' = FALSE
    /\ onSortCall' = Null
    /\ UNCHANGED <<probe, awaitingSort, data, numColumns, selectedKey, startPoint, moveY, layout,
                   contentOffset, responder, open, renders, presses>>

\* onMoveShouldSetPanResponder(Capture): a move while the pan responder does not
\* hold the gesture.
handleMoveShouldSetPanResponder ==
    /\ ~responder
    /\ recon' = Null
    /\ onDragStartCall' = Null
    /\ pressed' = FALSE
    /\ onSortCall' = Null
    /\ IF startPoint = Null \/ selectedKey = NoKey
       THEN /\ hit' = Null
            /\ scrollToCall' = Null
            /\ UNCHANGED <<itemStateMap, keys, animations, startPointOffset, scrollY,
                           zoneScroll, animationId, responder>>
       ELSE /\ animate(animationId)
            /\ responder' = TRUE
    /\ UNCHANGED <<probe, awaitingSort, data, numColumns, selectedKey, startPoint, moveY, layout,
                   contentOffset, open, renders, presses>>

\* onStartShouldSetPanResponder (returnTrue): a touch that starts on a cell's
\* view and that no touchable inside it claims makes the cell the responder at
\* once.
handleStartShouldSetPanResponder ==
    /\ ~responder
    /\ responder' = TRUE
    /\ recon' = Null
    /\ hit' = Null
    /\ NoCalls
    /\ UNCHANGED <<probe, awaitingSort, data, numColumns, itemStateMap, keys, animations, selectedKey,
                   startPoint, startPointOffset, moveY, layout, contentOffset,
                   animationId, scrollY, open, renders, presses, zoneScroll>>

\* ------------------------------------------------------------ Drag Session
\* onPanResponderMove with gesture state (moveY - layout.y = my, dx, dy).
handleMove(my, dx, dy) ==
    /\ responder
    /\ recon' = Null
    /\ NoCalls
    /\ IF layout = Null \/ selectedKey = NoKey \/ startPoint = Null
          \/ selectedKey \notin DOMAIN itemStateMap
       THEN /\ hit' = Null
            /\ UNCHANGED <<itemStateMap, keys, animations, moveY, zoneScroll>>
       ELSE LET x == Get(startPoint)[1] + dx
                y == Get(startPoint)[2] + dy + startPointOffset
                r == reorder([itemStateMap EXCEPT ![selectedKey].posAnimated = <<x, y>>],
                             keys, Supersede(animations, {selectedKey}), selectedKey,
                             numColumns, numRows, x, y)
            IN /\ moveY' = Some(my)
               /\ itemStateMap' = r.itemStateMap
               /\ keys' = r.keys
               /\ animations' = r.animations
               /\ hit' = r.hit
               /\ zoneScroll' = IF InBottomZone(my, Get(layout)) THEN zoneScroll ELSE Null
    /\ UNCHANGED <<probe, awaitingSort, data, numColumns, selectedKey, startPoint, startPointOffset, layout,
                   contentOffset, animationId, scrollY, responder, open, renders,
                   presses>>

\* Faulty variant of CancelFrame for C16: the pending frame is left to run.
CancelFrameKept(id) == id

\* cancelAnimationFrame(animationId); state.animationId = null
CancelFrame(id) == FALSE

\* handleRelease(): the part of the step that is the same for both events.
handleRelease ==
    /\ recon' = Null
    /\ hit' = Null
    /\ NoCalls
    /\ IF startPoint = Null
       THEN UNCHANGED <<startPoint, animationId, selectedKey, animations, zoneScroll,
                        awaitingSort>>
       ELSE /\ startPoint' = Null
            /\ awaitingSort' = (awaitingSort \/ selectedKey # NoKey)
            /\ animationId' = CancelFrame(animationId)
            /\ selectedKey' = NoKey
            /\ zoneScroll' = Null
            /\ animations' =
                 IF selectedKey = NoKey \/ selectedKey \notin DOMAIN itemStateMap
                 THEN animations
                 ELSE StartTiming(animations, "release", selectedKey,
                                  itemStateMap[selectedKey].pos)
    /\ UNCHANGED <<probe, data, numColumns, itemStateMap, keys, startPointOffset, moveY,
                   layout, contentOffset, scrollY, open, renders, presses>>

\* onPanResponderEnd: a touch ended, the responder keeps the gesture.
PanResponderEnd ==
    /\ responder
    /\ handleRelease
    /\ UNCHANGED responder

\* onPanResponderRelease: the last touch ended, the gesture is over.
PanResponderRelease ==
    /\ responder
    /\ handleRelease
    /\ responder' = FALSE

\* Faulty variant of ReportsSort for C20: no completion reports.
ReportsSortNever(anim) == FALSE

\* Faulty variant of ReportsSort: a reorder group reports too.
ReportsSortOnReorder(anim) == anim.kind # "reconcile"

\* Only the release-snap's completion callback calls onSort.
ReportsSort(anim) == anim.kind = "release"

\* The host completes the i-th animation in flight: its values are at their
\* toValue and the callback given to start() runs.
AnimationComplete(i) ==
    /\ i \in DOMAIN animations
    /\ LET anim == animations[i]
           live == (DOMAIN anim.toValue) \cap DOMAIN itemStateMap
       IN /\ itemStateMap' =
                [k \in DOMAIN itemStateMap |->
                    IF k \in live
                    THEN [itemStateMap[k] EXCEPT !.posAnimated = anim.toValue[k]]
                    ELSE itemStateMap[k]]
          /\ animations' = RemoveAt(animations, i)
          /\ IF ReportsSort(anim)
             THEN /\ onSortCall' = Some(keys)
                  /\ open' = Max(open - 1, 0)
                  /\ awaitingSort' = FALSE
             ELSE /\ onSortCall' = Null
                  /\ UNCHANGED <<open, awaitingSort>>
    /\ onDragStartCall' = Null
    /\ pressed' = FALSE
    /\ scrollToCall' = Null
    /\ hit' = Null
    /\ recon' = Null
    /\ UNCHANGED <<probe, data, numColumns, keys, selectedKey, startPoint, startPointOffset,
                   moveY, layout, contentOffset, animationId, scrollY, responder,
                   renders, presses, zoneScroll>>

\* Any host, a pointer that stays clear of the viewport's edge zones: the host
\* re-renders with any of its inputs and either column count at any time.
Next ==
    \/ \E d \in DataInputs \cup {keys, data}, nc \in Columns, newArray \in BOOLEAN :
          Render(d, nc, newArray)
    \/ handleLayout
    \/ handleScroll
    \/ \E key \in Keys : handleLongPress(key)
    \/ handleMoveShouldSetPanResponder
    \/ handleStartShouldSetPanResponder
    \/ \E dx \in DeltaXs, dy \in DeltaYs : handleMove(MidY, dx, dy)
    \/ PanResponderEnd
    \/ PanResponderRelease
    \/ Tick
    \/ \E i \in 1..(MaxAnims + 2) : AnimationComplete(i)

Spec == Init /\ [][Next]_vars

\* A pointer that moves along its column, between the middle and the bottom edge
\* of the viewport, and a host that re-renders only to adopt the
\* order onSort reported (a new array in the store's order, same columns).
NextScroll ==
    \/ Render(keys, numColumns, TRUE)
    \/ handleLayout
    \/ handleScroll
    \/ \E key \in Keys : handleLongPress(key)
    \/ handleMoveShouldSetPanResponder
    \/ handleStartShouldSetPanResponder
    \/ \E my \in MoveYs, dy \in DeltaYs : handleMove(my, 0, dy)
    \/ PanResponderEnd
    \/ PanResponderRelease
    \/ Tick
    \/ \E i \in 1..(MaxAnims + 2) : AnimationComplete(i)

SpecScroll == Init /\ [][NextScroll]_vars

\* Every started animation eventually completes: the host's animation driver
\* runs each tween to its end (at once for a duration of zero).
Fairness == WF_vars(\E i \in 1..(MaxAnims + 2) : AnimationComplete(i))

SpecLive == Init /\ [][Next]_vars /\ Fairness

\* ------------------------------------------------------------- geometry runs
\* The cell-hit test of reorder as a function of the grid: any column count up
\* to MaxColumns, any number of items up to MaxItems, mounted and idle.
InitGeometry ==
    /\ numColumns \in 1..MaxColumns
    /\ data \in {[i \in 1..n |-> i] : n \in 1..MaxItems}
    /\ keys = data
    /\ itemStateMap = Reconcile(<<>>, data, numColumns).map
    /\ animations = <<>>
    /\ recon = Null
    /\ selectedKey = NoKey
    /\ startPoint = Null
    /\ startPointOffset = 0
    /\ moveY = Null
    /\ layout = Null
    /\ contentOffset = 0
    /\ animationId = FALSE
    /\ scrollY = 0
    /\ responder = FALSE
    /\ onDragStartCall = Null
    /\ pressed = FALSE
    /\ onSortCall = Null
    /\ scrollToCall = Null
    /\ hit = Null
    /\ open = 0
    /\ renders = 0
    /\ presses = 0
    /\ zoneScroll = Null
    /\ probe = Null
    /\ awaitingSort = FALSE

\* reorder's newIndex for an item placed exactly on cell i of the grid.
HitTest(i) ==
    /\ i \in 0..(numColumns * numRows - 1)
    /\ LET p == getItemPosition(i, numColumns)
       IN hit' = Some(NewIndex(p[1], p[2], numColumns, numRows, Len(keys)))
    /\ probe' = Some(i)
    /\ UNCHANGED <<awaitingSort, data, numColumns, itemStateMap, keys, animations, selectedKey,
                   startPoint, startPointOffset, moveY, layout, contentOffset,
                   animationId, scrollY, responder, onDragStartCall, onSortCall,
                   scrollToCall, pressed, recon, open, renders, presses, zoneScroll>>

NextGeometry == \E i \in 0..(MaxColumns * MaxItems) : HitTest(i)

SpecGeometry == InitGeometry /\ [][NextGeometry]_vars


\* ================================================================= claims
KindsInFlight(kind) == {i \in DOMAIN animations : animations[i].kind = kind}

\* C1: under a host that only adopts the reported order, after any sequence of
\* reorder tests (pointer moves and auto-scroll ticks, applied or skipped) the
\* ordered key sequence is a permutation of the key set it started with: same
\* length, no key duplicated, no key lost.
C1_PermutationInvariant ==
    /\ Len(keys) = Len(InitData)
    /\ Range(keys) = Range(InitData)
    /\ NoDup(keys)

\* A tick of the auto-scroll loop applied a reorder test and the order changed.
C1_Witness ==
    /\ hit # Null /\ Get(hit) >= 0
    /\ scrollToCall # Null
    /\ keys # InitData

\* C2 (as claimed): onSort fires exactly once per onDragStart: when onDragStart
\* fires, every earlier onDragStart has had its onSort, and every onSort commits
\* the one drag that is open.
C2_CommitOnce ==
    [][/\ onDragStartCall' # Null => open = 0
       /\ onSortCall' # Null => open = 1]_vars

\* C3 (as claimed): state.animations never holds more than one entry.
C3_SingleInFlight == Len(animations) <= 1

\* C3 (amended): a reorder group is only started when nothing is in flight (it
\* is the oldest entry of state.animations), so at most one reorder group is in
\* flight, and at most one release-snap animation is in flight.
C3_OneReorderOneRelease ==
    /\ \A i \in KindsInFlight("reorder") : i = 1
    /\ Cardinality(KindsInFlight("release")) <= 1

\* The release-snap was started while a reorder group was still in flight.
C3_Witness ==
    /\ Len(animations) = 2
    /\ animations[1].kind = "reorder"
    /\ animations[2].kind = "release"

\* C4: a long-press that arrives while any animation is in flight is ignored:
\* selectedKey, startPoint and startPointOffset are left unchanged and
\* onDragStart is not fired.
C4_LongPressIgnoredWhileAnimating ==
    [][(pressed' /\ animations # <<>>) =>
          /\ onDragStartCall' = Null
          /\ selectedKey' = selectedKey
          /\ startPoint' = startPoint
          /\ startPointOffset' = startPointOffset]_vars

\* A long-press was handled while a reorder group was in flight (Scenario C).
C4_Witness == pressed /\ KindsInFlight("reorder") # {}

\* C5 (as claimed): at every settled state every item has
\* posAnimated = pos = getItemPosition(index) under the current configuration
\* and the indices are exactly 0 .. N-1.
C5_SettledLayout ==
    (selectedKey = NoKey /\ animations = <<>>) =>
        /\ \A k \in DOMAIN itemStateMap :
              /\ itemStateMap[k].posAnimated = itemStateMap[k].pos
              /\ itemStateMap[k].pos = getItemPosition(itemStateMap[k].index, numColumns)
        /\ {itemStateMap[k].index : k \in DOMAIN itemStateMap}
              = 0..(Cardinality(DOMAIN itemStateMap) - 1)
        /\ \A k, l \in DOMAIN itemStateMap :
              itemStateMap[k].index = itemStateMap[l].index => k = l

\* C6 (as claimed): onSort is invoked only as the completion of a release-snap
\* animation: never while a key is selected, never by a step that ran a reorder
\* test, and when an onDragStart fires every earlier drag has had its onSort.
C6_SortOnlyAtSnapCompletion ==
    [][/\ onSortCall' # Null =>
            /\ selectedKey = NoKey /\ selectedKey' = NoKey
            /\ hit' = Null
            /\ \E i \in KindsInFlight("release") : animations' = RemoveAt(animations, i)
            /\ Get(onSortCall') = keys
       /\ onDragStartCall' # Null =>
            /\ KindsInFlight("release") = {}
            /\ open = 0]_vars

\* C7: an applied reorder test is a single-element move: the selected key ends at
\* newIndex, the other keys keep their relative order, the keys between the old
\* index (exclusive) and newIndex (inclusive) shift one slot toward the old
\* index, and every other key keeps its index.
C7_SingleElementMove ==
    [][(hit' # Null /\ Get(hit') >= 0 /\ Get(hit') # itemStateMap[selectedKey].index) =>
          LET old == itemStateMap[selectedKey].index
              new == Get(hit')
          IN /\ keys'[new + 1] = selectedKey
             /\ itemStateMap'[selectedKey].index = new
             /\ RemoveAt(keys', new + 1) = RemoveAt(keys, old + 1)
             /\ \A k \in (DOMAIN itemStateMap) \ {selectedKey} :
                  LET j == itemStateMap[k].index
                  IN itemStateMap'[k].index =
                        IF old < j /\ j <= new THEN j - 1
                        ELSE IF new <= j /\ j < old THEN j + 1
                        ELSE j
             /\ \A k \in DOMAIN itemStateMap : keys'[itemStateMap'[k].index + 1] = k]_vars

\* The first key was dragged to the last slot, every other key moved down by one
\* (Scenario A).
C7_Witness ==
    /\ hit = Some(MaxKeys - 1)
    /\ selectedKey = InitData[1]
    /\ keys = Append(Tail(InitData), InitData[1])

\* The pointer-driven position of the selected item lies outside the grid.
OutsideGrid(x, y) ==
    \/ x < 0
    \/ y < 0
    \/ x > (numColumns - 1) * ItemWidth
    \/ y > (numRows - 1) * ItemHeight

\* C8 (as claimed): for every pointer-driven position (x, y), also outside the
\* grid, the reorder test computes newIndex = min(lastIndex, row*numColumns + col)
\* with col = clamp(floor((x + itemW/2)/itemW), 0, numColumns) and
\* row = clamp(floor((y + itemH/2)/itemH), 0, numRows), newIndex is within
\* [0, lastIndex], and a position past the grid's bounds pins the item to the
\* first or the last cell.
C8_PinsToFirstOrLast ==
    (hit # Null /\ Get(hit) >= 0) =>
        LET x == itemStateMap[selectedKey].posAnimated[1]
            y == itemStateMap[selectedKey].posAnimated[2]
            lastIndex == Len(keys) - 1
        IN /\ Get(hit) = NewIndex(x, y, numColumns, numRows, Len(keys))
           /\ Get(hit) \in 0..lastIndex
           /\ OutsideGrid(x, y) => Get(hit) \in {0, lastIndex}

\* C8 (amended): newIndex = min(lastIndex, row*numColumns + col) with the clamped
\* col and row, and newIndex is within [0, lastIndex]; a position at or beyond
\* the top-left corner pins to the first cell, a position below the grid pins to
\* the last cell, and a position past one edge only has that coordinate clamped
\* (a column clamped to numColumns lands in the first column of the next row).
C8_NewIndexClamped ==
    (hit # Null /\ Get(hit) >= 0) =>
        LET x == itemStateMap[selectedKey].posAnimated[1]
            y == itemStateMap[selectedKey].posAnimated[2]
            rawCol == (x + ItemWidth \div 2) \div ItemWidth
            rawRow == (y + ItemHeight \div 2) \div ItemHeight
            col == IF rawCol < 0 THEN 0 ELSE IF rawCol > numColumns THEN numColumns ELSE rawCol
            row == IF rawRow < 0 THEN 0 ELSE IF rawRow > numRows THEN numRows ELSE rawRow
            lastIndex == Len(keys) - 1
            cell == row * numColumns + col
        IN /\ Get(hit) = IF cell > lastIndex THEN lastIndex ELSE cell
           /\ Get(hit) \in 0..lastIndex
           /\ (x <= 0 /\ y <= 0) => Get(hit) = 0
           /\ y >= numRows * ItemHeight => Get(hit) = lastIndex
           /\ (rawCol >= numColumns /\ row < numRows - 1) =>
                 Get(hit) = (row + 1) * numColumns

\* A reorder test ran on a position right of the grid whose column had to be
\* clamped (Scenario B).
C8_Witness ==
    /\ hit # Null /\ Get(hit) >= 0
    /\ (itemStateMap[selectedKey].posAnimated[1] + ItemWidth \div 2) \div ItemWidth
          > numColumns

\* C9: reconciling again with the input the store was last reconciled with, with
\* no reorder in between (the store is still in the input's order), returns the
\* same store: no new map, no item state replaced, no animation started.
C9_ReconcileIdempotent ==
    [][(recon' # Null /\ Get(recon').input = data /\ keys = data) =>
          /\ ~Get(recon').changed
          /\ Get(recon').newObjs = {}
          /\ Get(recon').fresh = {}
          /\ itemStateMap' = itemStateMap
          /\ keys' = keys
          /\ animations' = animations]_vars

\* A render with a new array of the same keys found nothing changed.
C9_Witness ==
    /\ recon # Null /\ ~Get(recon).changed
    /\ renders > 0 /\ Get(recon).input = data

\* C10 (as claimed): every scrollTo carries a y within
\* [0, totalContentHeight - viewportHeight], and while the pointer stays in the
\* bottom edge zone the y of a scrollTo is never below the y of the one before.
C10_ScrollClampedMonotone ==
    [][scrollToCall' # Null =>
          /\ Get(scrollToCall') >= 0
          /\ Get(scrollToCall') <= ItemHeight * numRows - Get(layout)
          /\ (zoneScroll # Null /\ InBottomZone(Get(moveY), Get(layout)))
                => Get(scrollToCall') >= Get(zoneScroll)]_vars

\* C11 (as claimed): for every column count and every cell index i with
\* 0 <= i < columns*rows, the cell-hit test applied to an item placed exactly on
\* cell i returns i.
C11_RoundTripAllCells ==
    probe # Null => hit = probe

\* C11 (amended): the cell-hit test applied to an item placed exactly on cell i
\* returns i for every cell that holds an item (0 <= i < N), and the last index
\* N-1 for the empty cells of a partly filled last row (N <= i < columns*rows).
C11_RoundTripItemCells ==
    probe # Null =>
        /\ Get(probe) < Len(keys) => hit = probe
        /\ Get(probe) >= Len(keys) => hit = Some(Len(keys) - 1)

\* The test was applied to the last cell of the second row of a grid of several
\* columns, and the cell holds an item.
C11_Witness ==
    /\ probe # Null /\ hit = probe
    /\ numColumns > 1
    /\ Get(probe) = 2 * numColumns - 1

\* The animations in flight, by kind, in the order they were started.
KindsOf(anims) == [i \in DOMAIN anims |-> anims[i].kind]

\* Every item's index and pos are the same before and after the step.
LayoutUnchanged ==
    /\ DOMAIN itemStateMap' = DOMAIN itemStateMap
    /\ \A k \in DOMAIN itemStateMap :
          /\ itemStateMap'[k].index = itemStateMap[k].index
          /\ itemStateMap'[k].pos = itemStateMap[k].pos

\* C12: a reorder test that runs while any animation is in flight is dropped:
\* the ordered key sequence, every item's index and pos and the animations in
\* flight are left unchanged; and the completion of an animation replays
\* nothing: it runs no reorder test and changes no key, index or pos.
C12_ReorderDroppedWhileAnimating ==
    [][/\ (hit' # Null /\ animations # <<>>) =>
            /\ hit' = Some(0 - 1)
            /\ keys' = keys
            /\ LayoutUnchanged
            /\ KindsOf(animations') = KindsOf(animations)
            /\ \A i \in DOMAIN animations :
                  \A k \in (DOMAIN animations[i].toValue) \ {selectedKey} :
                     /\ k \in DOMAIN animations'[i].toValue
                     /\ animations'[i].toValue[k] = animations[i].toValue[k]
       /\ Len(animations') < Len(animations) =>
            /\ hit' = Null
            /\ keys' = keys
            /\ LayoutUnchanged]_vars

\* A pointer sample was dropped while the reorder group of an earlier sample was
\* in flight, with the selected item over another cell than its own.
C12_Witness ==
    /\ hit = Some(0 - 1)
    /\ KindsInFlight("reorder") # {}
    /\ selectedKey \in DOMAIN itemStateMap
    /\ itemStateMap[selectedKey].posAnimated # itemStateMap[selectedKey].pos

\* The selected item's posAnimated is startPoint + (dx, dy) + (0, startPointOffset)
\* for a pointer sample (dx, dy), (0, 0) before the first sample of the drag.
PointerDriven ==
    \E dx \in DeltaXs \cup {0}, dy \in DeltaYs \cup {0} :
        itemStateMap[selectedKey].posAnimated =
            <<Get(startPoint)[1] + dx, Get(startPoint)[2] + dy + startPointOffset>>

\* C13 (as claimed): while a key is selected its posAnimated is pointer-driven
\* only: after every pointer-move sample and every auto-scroll tick that
\* positions it, it equals startPoint + (dx, dy) + (0, startPointOffset), and no
\* animation in flight while the key is selected (every one of them was started
\* during the drag) has a tween on the selected item's posAnimated.
C13_PointerDrivenOnly ==
    [][/\ hit' # Null => PointerDriven'
       /\ selectedKey' # NoKey =>
             \A i \in DOMAIN animations' : selectedKey' \notin DOMAIN animations'[i].toValue]_vars

\* C14 (as claimed): on every accepted long-press of item k, startPoint is
\* getItemPosition of k's current index in state.keys, startPointOffset is 0 and onDragStart is called with k and that index.
C14_LongPressUsesCurrentIndex ==
    [][onDragStartCall' # Null =>
          LET k == selectedKey'
              index == IndexOf(keys, k) - 1
          IN /\ Get(onDragStartCall') = <<k, index>>
             /\ itemStateMap[k].index = index
             /\ startPoint' = Some(getItemPosition(index, numColumns))
             /\ startPointOffset' = 0]_vars

\* C15 (as claimed): while a drag is in progress (the pan responder holds the
\* gesture, a key of the store is selected, the viewport is measured) a frame of
\* the auto-scroll loop is always pending, in the first drag after mount as well
\* as in later drags, whether or not the last tick scrolled.
C15_LoopAlwaysPending ==
    (/\ responder
     /\ startPoint # Null
     /\ selectedKey # NoKey
     /\ selectedKey \in DOMAIN itemStateMap
     /\ layout # Null) => animationId

\* C16: releasing the pointer always stops the auto-scroll loop, whatever
\* animations are in flight: once the release handler has run and until the next
\* accepted long-press (startPoint is null), no frame is pending, no scrollTo is
\* issued and no reorder test runs; and the release leaves every reorder group
\* in flight as it is.
C16_ReleaseStopsLoop ==
    [][/\ startPoint' = Null =>
            /\ ~animationId'
            /\ scrollToCall' = Null
            /\ hit' = Null
       /\ (startPoint # Null /\ startPoint' = Null) =>
            \A i \in KindsInFlight("reorder") :
               /\ i \in DOMAIN animations'
               /\ animations'[i] = animations[i]]_vars

\* The pointer was released after the loop had scrolled the content, with the
\* reorder group of the last tick or sample still in flight.
C16_Witness ==
    /\ startPoint = Null
    /\ scrollY > 0
    /\ KindsInFlight("reorder") # {}
    /\ KindsInFlight("release") # {}

\* C17 (as claimed): when a render changes the grid configuration (numColumns)
\* and the input sequence is unchanged, every item's pos is re-derived so that
\* it equals getItemPosition(index) under the new configuration, and every item
\* keeps the animatable handle it had (no handle is created or discarded).
C17_ConfigChangeRederivesPos ==
    [][(numColumns' # numColumns /\ data' = data) =>
          /\ \A k \in DOMAIN itemStateMap' :
                itemStateMap'[k].pos
                    = getItemPosition(itemStateMap'[k].index, numColumns')
          /\ DOMAIN itemStateMap' = DOMAIN itemStateMap
          /\ recon' # Null => Get(recon').fresh = {}]_vars

\* C18 (as claimed): when a reconciliation during a drag removes the selected key
\* from the store, the drag is cancelled as an implicit release: selectedKey
\* becomes null and no frame of the auto-scroll loop stays pending; and with the
\* selected key gone no step reports onSort, scrolls, runs a reorder test or
\* starts an animation.
C18_RemovedKeyCancelsDrag ==
    [][/\ (selectedKey \in DOMAIN itemStateMap /\ selectedKey \notin DOMAIN itemStateMap') =>
            /\ selectedKey' = NoKey
            /\ startPoint' = Null
            /\ ~animationId'
       /\ (selectedKey # NoKey /\ selectedKey \notin DOMAIN itemStateMap) =>
            /\ onSortCall' = Null
            /\ scrollToCall' = Null
            /\ hit' = Null
            /\ KindsInFlight("release")' = KindsInFlight("release")]_vars

\* C19: after every reconciliation the store's key set is the input's key set
\* and state.keys is the input's key order; a key that already existed keeps the
\* posAnimated handle it had, with the value it had (also the selected key
\* during a drag); a fresh handle, seeded at getItemPosition(index), is created
\* only for a key the store did not hold; a key absent from the input is
\* discarded.
C19_ReconcileReusesHandles ==
    [][recon' # Null =>
          LET input == Get(recon').input
          IN /\ DOMAIN itemStateMap' = Range(input)
             /\ keys' = input
             /\ Get(recon').fresh = Range(input) \ DOMAIN itemStateMap
             /\ \A k \in Range(input) :
                  /\ itemStateMap'[k].index = IndexOf(input, k) - 1
                  /\ k \in DOMAIN itemStateMap =>
                        itemStateMap'[k].posAnimated = itemStateMap[k].posAnimated
                  /\ k \notin DOMAIN itemStateMap =>
                        itemStateMap'[k].posAnimated
                            = getItemPosition(IndexOf(input, k) - 1, numColumns')]_vars

\* A reconciliation during a drag replaced the item state of the selected key
\* while the pointer held it away from its cell, created a new key and discarded
\* another.
C19_Witness ==
    /\ recon # Null
    /\ selectedKey \in Get(recon).newObjs
    /\ itemStateMap[selectedKey].posAnimated # itemStateMap[selectedKey].pos
    /\ Get(recon).fresh = {NewKey}
    /\ DOMAIN itemStateMap # Range(InitData)

\* C20 (as claimed): assuming every started animation eventually completes,
\* after every pointer release that ends a drag the animations in flight
\* eventually become empty, so that a long-press is accepted again, and onSort
\* is eventually reported.
C20_ReleaseLeadsToSort ==
    /\ awaitingSort ~> LongPressGuard
    /\ awaitingSort ~> (onSortCall # Null)

\* C20 (amended): assuming every started animation eventually completes, after
\* every pointer release that ends a drag the animations in flight eventually
\* become empty, so that a long-press is accepted again; onSort is eventually
\* reported after every release that started the release-snap, which is every
\* release of a drag whose selected key is still in the store.
C20_SnapLeadsToSort ==
    /\ awaitingSort ~> LongPressGuard
    /\ (KindsInFlight("release") # {}) ~> (onSortCall # Null)

\* A drag was released with its reorder group still in flight: the release-snap
\* and the reorder group are both to complete before the next long-press.
C20_Witness ==
    /\ awaitingSort
    /\ KindsInFlight("release") # {}
    /\ KindsInFlight("reorder") # {}

====
